---- MODULE Spec2Model ----
(***************************************************************************)
(* Tickora habit tracker (src/script.js): the ledger kept under the        *)
(* localStorage key 'tickoraData', the operations that read, change and    *)
(* save it, the streak and success-percentage computations, and the        *)
(* page's timers.                                                          *)
(*                                                                         *)
(* Representation.                                                         *)
(*  - A string is a sequence of one-character strings.  The characters of  *)
(*    the model need no JSON escape and no name is a property of           *)
(*    Object.prototype.                                                    *)
(*  - A date key 'YYYY-MM-DD' is the number of its day.  Date keys have a  *)
(*    fixed width, so their string order is the order of the day numbers;  *)
(*    setDate(getDate() - 1) is d - 1 (no daylight-saving shift between    *)
(*    two consecutive midnights, the clock never runs backwards).          *)
(*  - An array is a sequence; an object used as a map is a function whose  *)
(*    DOMAIN is the set of its own keys (obj[k] === undefined iff k is     *)
(*    not in the DOMAIN).                                                  *)
(*  - Of the DOM only the progress bar is part of the state, and it is     *)
(*    followed in SpecProgress only; the other specifications follow the   *)
(*    ledger and leave the page unobserved.  renderActivities,             *)
(*    generateCalendar, updateWeeklyStats, updateMonthlyStats,             *)
(*    updateStreakDisplay, loadTheme and updateProgress read the ledger    *)
(*    and write the page only.                                             *)
(***************************************************************************)
EXTENDS Integers, Sequences, FiniteSets, TLC

VARIABLES
    store,       \* localStorage item 'tickoraData': [shape, value, kinds]
    today,       \* the calendar day getTodayDate() returns
    appOpen,     \* the page is loaded (DOMContentLoaded has run)
    inThrottle,  \* the inThrottle flag of the checkNewDay throttle closure
    mediumFull,  \* localStorage.setItem raises QuotaExceededError
    lastOp,      \* history: the user's operation run last, its input and outcome
    stats,       \* history: the last result of calculateSuccessPercentage
    before,      \* history: the content of localStorage in the initial state
    subject,     \* history: the name a behaviour of SpecReAdd is about
    progress     \* the progress bar: the inThrottle flag of the closure of
                 \* updateProgressThrottled and the percentage last shown

vars == <<store, today, appOpen, inThrottle, mediumFull, lastOp, stats, before, subject,
          progress>>

----------------------------------------------------------------------------
(* Bounds of the model *)

\* days are 1..MaxDay
MaxDay == 3
\* the largest number of dates with a record in dailyData
MaxRecords == 1

(* Program constants *)

\* longest valid activity name
MaxNameLength == 100
\* largest number of activities
MaxActivities == 50
\* largest serialized ledger saveData writes
MaxDataLength == 5000000

----------------------------------------------------------------------------
(* Strings *)

Rep(c, n) == [i \in 1..n |-> c]

Range(s) == {s[i] : i \in 1..Len(s)}

Includes(s, x) == \E i \in 1..Len(s) : s[i] = x

Filter(s, x) == SelectSeq(s, LAMBDA e : e # x)

Space == " "

RECURSIVE TrimStart(_)
TrimStart(s) ==
    IF s # <<>> /\ Head(s) = Space THEN TrimStart(Tail(s)) ELSE s

RECURSIVE TrimEnd(_)
TrimEnd(s) ==
    IF s # <<>> /\ s[Len(s)] = Space THEN TrimEnd(SubSeq(s, 1, Len(s) - 1)) ELSE s

trim(s) == TrimEnd(TrimStart(s))

\* div.textContent = input; return div.textContent || div.innerText || ''
\* (a text node holds the string as given: nothing is escaped)
sanitizeInput(input) ==
    LET textContent == input
        innerText == input
    IN  IF textContent # <<>> THEN textContent
        ELSE IF innerText # <<>> THEN innerText
        ELSE <<>>

\* Returns false ([ok |-> FALSE]) or the sanitized, trimmed name.
validateActivityName(name) ==
    IF name = <<>> THEN [ok |-> FALSE, name |-> <<>>]
    ELSE LET sanitized == trim(sanitizeInput(name))
         IN  IF Len(sanitized) = 0 \/ Len(sanitized) > MaxNameLength
             THEN [ok |-> FALSE, name |-> <<>>]
             ELSE [ok |-> TRUE, name |-> sanitized]

----------------------------------------------------------------------------
(* The inputs the model draws *)

NameA == <<"a">>
NameLong == Rep("a", MaxNameLength)
NameTooLong == Rep("a", MaxNameLength + 1)
NamePadded == <<" ", "a", " ">>

\* the names the page is given to add
RawNames == {<<>>, <<" ">>, NameA, NamePadded, NameLong, NameTooLong}

\* the names deleteActivity is called with
DeleteNames == {NameA, NamePadded, NameLong}

\* the names toggleActivity is called with
ToggleNames == {NameA}

\* "f01", "f02", ...: the activities of a ledger that is one short of full
Digit(n) == <<"0", "1", "2", "3", "4", "5", "6", "7", "8", "9">>[n + 1]
Filler(k) == <<"f", Digit(k \div 10), Digit(k % 10)>>
FullMinusOne == [k \in 1..(MaxActivities - 1) |-> Filler(k)]

Days == 1..MaxDay

\* an object with no key: {}
EmptyMap == [k \in {} |-> TRUE]

\* obj with obj[k] = v set
Put(obj, k, v) == [x \in DOMAIN obj \cup {k} |-> IF x = k THEN v ELSE obj[x]]

\* obj after delete obj[k]
Remove(obj, k) == [x \in DOMAIN obj \ {k} |-> obj[x]]

----------------------------------------------------------------------------
(* JSON.stringify(data).length *)

\* the sum of f[x] over the domain of the function f
RECURSIVE SumOf(_, _)
SumOf(f, S) ==
    IF S = {} THEN 0
    ELSE LET x == CHOOSE y \in S : TRUE
         IN  f[x] + SumOf(f, S \ {x})

Sum(f) == SumOf(f, DOMAIN f)

\* commas between n members
Commas(n) == IF n > 1 THEN n - 1 ELSE 0

RECURSIVE Digits(_)
Digits(n) == IF n < 10 THEN 1 ELSE 1 + Digits(n \div 10)

\* a quoted string
QuotedLength(s) == Len(s) + 2

\* a quoted date key, "YYYY-MM-DD"
DateLength == 12

\* the quoted strings of an array from index i on
RECURSIVE QuotedFrom(_, _)
QuotedFrom(a, i) ==
    IF i > Len(a) THEN 0 ELSE QuotedLength(a[i]) + QuotedFrom(a, i + 1)

\* ["a","b"]
NameArrayLength(a) == 2 + QuotedFrom(a, 1) + Commas(Len(a))

\* ["2024-01-01","2024-01-02"]
DateArrayLength(a) == 2 + Len(a) * DateLength + Commas(Len(a))

\* {"a":true,"b":false}
RecordLength(r) ==
    2 + Sum([k \in DOMAIN r |-> QuotedLength(k) + 1 + (IF r[k] THEN 4 ELSE 5)])
      + Commas(Cardinality(DOMAIN r))

\* {"2024-01-01":{...},"2024-01-02":{...}}
DailyDataLength(dd) ==
    2 + Sum([d \in DOMAIN dd |-> DateLength + 1 + RecordLength(dd[d])])
      + Commas(Cardinality(DOMAIN dd))

\* the eight members of the ledger, with their keys, colons and commas
JSONLength(data) ==
    2 + 7
    + (12 + 1 + NameArrayLength(data.activities))
    + (11 + 1 + DailyDataLength(data.dailyData))
    + (15 + 1 + DateLength)
    + (7 + 1 + (IF data.theme = "light" THEN 7 ELSE 6))
    + (10 + 1 + DateArrayLength(data.appOpens))
    + (15 + 1 + Digits(data.currentStreak))
    + (12 + 1 + Digits(data.bestStreak))
    + (14 + 1 + DateLength)

----------------------------------------------------------------------------
(* Data management *)

\* what initializeData builds
DefaultData(t) ==
    [activities    |-> <<>>,
     dailyData     |-> EmptyMap,
     lastResetDate |-> t,
     theme         |-> "light",
     appOpens      |-> <<>>,
     currentStreak |-> 0,
     bestStreak    |-> 0,
     lastOpenDate  |-> t]

\* what Array.isArray and typeof say of the three members getData looks at
WellShaped == [activities |-> "array", dailyData |-> "object", appOpens |-> "array"]

\* the content of localStorage: shape is "missing" (getItem gives null),
\* "unparsable" (JSON.parse throws), "notObject" (null, a number, a string, a
\* boolean) or "ok" (an object); of an object, kinds tells for each of the
\* three members whether it is as it should be, and value holds the members
\* (those of the wrong kind are not read from it)
Blob(shape, data, kinds) == [shape |-> shape, value |-> data, kinds |-> kinds]

\* localStorage holding the serialized ledger
Stored(data) == Blob("ok", data, WellShaped)

\* localStorage.getItem('tickoraData') === null
Missing == Blob("missing", DefaultData(0), WellShaped)

\* initializeData: writes the default ledger with setItem (no size check, no
\* try) and returns it.  The write raises when the medium is full; getData's
\* catch then calls initializeData again.
initializeData(t) ==
    [data |-> DefaultData(t), store |-> Stored(DefaultData(t)), nullDailyData |-> FALSE]

\* the three repairs of getData, made on the parsed object only; typeof null
\* is 'object', so a null dailyData is left as it is
Repaired(s) ==
    [s.value EXCEPT
        !.activities = IF s.kinds.activities = "array" THEN @ ELSE <<>>,
        !.dailyData  = IF s.kinds.dailyData = "object" THEN @ ELSE EmptyMap,
        !.appOpens   = IF s.kinds.appOpens = "array" THEN @ ELSE <<>>]

\* getData: the ledger it returns, what the call leaves in localStorage, and
\* whether the dailyData of the returned ledger is null.
getData(s, t) ==
    IF s.shape \in {"missing", "unparsable", "notObject"} THEN initializeData(t)
    ELSE [data |-> Repaired(s), store |-> s,
          nullDailyData |-> s.kinds.dailyData = "null"]

\* saveData: the new content of localStorage and whether the write happened.
\* A ledger that is too long, and a write the medium refuses, are logged (the
\* second also alerts); the function returns undefined either way.
saveData(data, s, full) ==
    IF JSONLength(data) > MaxDataLength
    THEN [store |-> s, written |-> FALSE, alert |-> FALSE]
    ELSE IF full
    THEN [store |-> s, written |-> FALSE, alert |-> TRUE]
    ELSE [store |-> Stored(data), written |-> TRUE, alert |-> FALSE]

----------------------------------------------------------------------------
(* Daily reset and streaks *)

Max(a, b) == IF a >= b THEN a ELSE b

\* Array.prototype.sort on date keys: ascending
RECURSIVE InsertSorted(_, _)
InsertSorted(s, x) ==
    IF s = <<>> THEN <<x>>
    ELSE IF x <= Head(s) THEN <<x>> \o s
    ELSE <<Head(s)>> \o InsertSorted(Tail(s), x)

RECURSIVE SortDates(_)
SortDates(s) ==
    IF s = <<>> THEN <<>> ELSE InsertSorted(SortDates(Tail(s)), Head(s))

\* the walk back with no break at a gap: every earlier day is counted
WalkBack_CountsAcrossGaps(sortedDates, checkDate) ==
    Cardinality({i \in 1..Len(sortedDates) : sortedDates[i] <= checkDate})

\* the while (true) loops of updateStreak: the number of consecutive days
\* in sortedDates found walking back from checkDate, up to the first gap
RECURSIVE WalkBack(_, _)
WalkBack(sortedDates, checkDate) ==
    IF Includes(sortedDates, checkDate)
    THEN 1 + WalkBack(sortedDates, checkDate - 1)
    ELSE 0

\* the first half of updateStreak: the current streak
CurrentStreak(sortedDates, t) ==
    IF Includes(sortedDates, t)
    THEN 1 + WalkBack(sortedDates, t - 1)
    ELSE IF Includes(sortedDates, t - 1)
    THEN 1 + WalkBack(sortedDates, t - 2)
    ELSE 0

\* the for loop with a gap that resets tempStreak to 1 without recording it
RECURSIVE ScanRuns_ForgetsRun(_, _, _, _)
ScanRuns_ForgetsRun(sortedDatesObj, i, tempStreak, bestStreak) ==
    IF i > Len(sortedDatesObj) THEN [tempStreak |-> tempStreak, bestStreak |-> bestStreak]
    ELSE IF i = 1 THEN ScanRuns_ForgetsRun(sortedDatesObj, i + 1, 1, bestStreak)
    ELSE LET diffDays == sortedDatesObj[i] - sortedDatesObj[i - 1]
         IN  IF diffDays = 1
             THEN ScanRuns_ForgetsRun(sortedDatesObj, i + 1, tempStreak + 1, bestStreak)
             ELSE ScanRuns_ForgetsRun(sortedDatesObj, i + 1, 1, bestStreak)

\* the for loop of updateStreak from index i on: tempStreak and bestStreak
RECURSIVE ScanRuns(_, _, _, _)
ScanRuns(sortedDatesObj, i, tempStreak, bestStreak) ==
    IF i > Len(sortedDatesObj) THEN [tempStreak |-> tempStreak, bestStreak |-> bestStreak]
    ELSE IF i = 1 THEN ScanRuns(sortedDatesObj, i + 1, 1, bestStreak)
    ELSE LET diffDays == sortedDatesObj[i] - sortedDatesObj[i - 1]
         IN  IF diffDays = 1
             THEN ScanRuns(sortedDatesObj, i + 1, tempStreak + 1, bestStreak)
             ELSE ScanRuns(sortedDatesObj, i + 1, 1, Max(bestStreak, tempStreak))

\* a best streak that follows the current one
BestStreak_CurrentOnly(sortedDates, currentStreak) == currentStreak

\* the second half of updateStreak: the best streak
BestStreak(sortedDates, currentStreak) ==
    LET sortedDatesObj == SortDates(sortedDates)
        scan == ScanRuns(sortedDatesObj, 1, 0, 0)
    IN  Max(Max(scan.bestStreak, scan.tempStreak), currentStreak)

\* updateStreak(data) on day t: data with appOpens sorted in place and both
\* streaks set
updateStreak(data, t) ==
    IF Len(data.appOpens) = 0
    THEN [data EXCEPT !.currentStreak = 0, !.bestStreak = 0]
    ELSE LET sortedDates == SortDates(data.appOpens)
             currentStreak == CurrentStreak(sortedDates, t)
         IN  [data EXCEPT !.appOpens = sortedDates,
                          !.currentStreak = currentStreak,
                          !.bestStreak = BestStreak(sortedDates, currentStreak)]

\* checkDailyReset on day t: what it leaves in localStorage
checkDailyReset(s, t, full) ==
    LET got == getData(s, t)
        data == got.data
    IN  IF data.lastResetDate # t
        THEN saveData([data EXCEPT !.lastResetDate = t], got.store, full).store
        ELSE got.store

\* trackAppOpen without the call of updateStreak
trackAppOpen_NoStreakUpdate(s, t, full) ==
    LET got == getData(s, t)
        data == got.data
    IN  IF ~Includes(data.appOpens, t)
        THEN LET pushed == [data EXCEPT !.appOpens = Append(data.appOpens, t)]
             IN  saveData([pushed EXCEPT !.lastOpenDate = t], got.store, full).store
        ELSE got.store

\* trackAppOpen on day t: what it leaves in localStorage
trackAppOpen(s, t, full) ==
    LET got == getData(s, t)
        data == got.data
    IN  IF ~Includes(data.appOpens, t)
        THEN LET pushed == [data EXCEPT !.appOpens = Append(data.appOpens, t)]
                 updated == updateStreak(pushed, t)
             IN  saveData([updated EXCEPT !.lastOpenDate = t], got.store, full).store
        ELSE got.store

----------------------------------------------------------------------------
(* Activities *)

\* data.activities.push(validatedName): the ledger in memory
PushedData(data, validatedName) ==
    [data EXCEPT !.activities = Append(data.activities, validatedName)]

\* addActivity with the limit test written > instead of >=
addActivity_LimitOffByOne(s, t, full, name) ==
    LET validatedName == validateActivityName(name)
    IN  IF ~validatedName.ok THEN [store |-> s, outcome |-> "invalid"]
        ELSE LET got == getData(s, t)
                 data == got.data
             IN  IF Includes(data.activities, validatedName.name)
                 THEN [store |-> got.store, outcome |-> "duplicate"]
                 ELSE IF Len(data.activities) > MaxActivities
                 THEN [store |-> got.store, outcome |-> "limit"]
                 ELSE LET pushed == PushedData(data, validatedName.name)
                          saved == saveData(pushed, got.store, full)
                      IN  [store |-> saved.store,
                           outcome |-> IF saved.written THEN "saved" ELSE "notSaved"]

\* addActivity with the name pushed and saved before the two tests
addActivity_SavesBeforeTests(s, t, full, name) ==
    LET validatedName == validateActivityName(name)
    IN  IF ~validatedName.ok THEN [store |-> s, outcome |-> "invalid"]
        ELSE LET got == getData(s, t)
                 data == got.data
                 pushed == PushedData(data, validatedName.name)
                 saved == saveData(pushed, got.store, full)
             IN  IF Includes(data.activities, validatedName.name)
                 THEN [store |-> saved.store, outcome |-> "duplicate"]
                 ELSE IF Len(data.activities) >= MaxActivities
                 THEN [store |-> saved.store, outcome |-> "limit"]
                 ELSE [store |-> saved.store,
                       outcome |-> IF saved.written THEN "saved" ELSE "notSaved"]

\* addActivity(name): what it leaves in localStorage, and how it ended:
\* "invalid", "duplicate", "limit" (an alert and a return), "saved" or
\* "notSaved" (the name pushed and saveData called)
addActivity(s, t, full, name) ==
    LET validatedName == validateActivityName(name)
    IN  IF ~validatedName.ok THEN [store |-> s, outcome |-> "invalid"]
        ELSE LET got == getData(s, t)
                 data == got.data
             IN  IF Includes(data.activities, validatedName.name)
                 THEN [store |-> got.store, outcome |-> "duplicate"]
                 ELSE IF Len(data.activities) >= MaxActivities
                 THEN [store |-> got.store, outcome |-> "limit"]
                 ELSE LET pushed == PushedData(data, validatedName.name)
                          saved == saveData(pushed, got.store, full)
                      IN  [store |-> saved.store,
                           outcome |-> IF saved.written THEN "saved" ELSE "notSaved"]

\* the forEach of deleteActivity with the whole record of the date deleted
PurgeKey_DeletesRecord(dailyData, name) ==
    [date \in {d \in DOMAIN dailyData : name \notin DOMAIN dailyData[d]} |->
        dailyData[date]]

\* the forEach of deleteActivity: delete data.dailyData[date][name] for
\* every date
PurgeKey(dailyData, name) ==
    [date \in DOMAIN dailyData |-> Remove(dailyData[date], name)]

\* the body of deleteActivity up to saveData: the ledger in memory
DeletedData(data, name) ==
    [data EXCEPT !.activities = Filter(data.activities, name),
                 !.dailyData = PurgeKey(data.dailyData, name)]

\* deleteActivity(name), with the answer given to confirm()
deleteActivity(s, t, full, name, confirmed) ==
    IF ~confirmed THEN [store |-> s, outcome |-> "cancelled"]
    ELSE LET got == getData(s, t)
             data == got.data
             saved == saveData(DeletedData(data, name), got.store, full)
         IN  [store |-> saved.store,
              outcome |-> IF saved.written THEN "saved" ELSE "notSaved"]

\* a status read that never finds the flag set
StatusOrFalse_AlwaysFalse(dayData, activityName) == FALSE

\* data.dailyData[today][activityName] || false
StatusOrFalse(dayData, activityName) ==
    IF activityName \in DOMAIN dayData THEN dayData[activityName] ELSE FALSE

\* the body of toggleActivity up to saveData: the ledger in memory
ToggledData(data, t, activityName) ==
    LET withDay == IF t \in DOMAIN data.dailyData
                   THEN data.dailyData
                   ELSE Put(data.dailyData, t, EmptyMap)
        currentStatus == StatusOrFalse(withDay[t], activityName)
    IN  [data EXCEPT !.dailyData =
            Put(withDay, t, Put(withDay[t], activityName, ~currentStatus))]

\* toggleActivity(activityName)
toggleActivity(s, t, full, activityName) ==
    LET got == getData(s, t)
        saved == saveData(ToggledData(got.data, t, activityName), got.store, full)
    IN  [store |-> saved.store,
         outcome |-> IF saved.written THEN "saved" ELSE "notSaved"]

\* getActivityStatus(activityName)
getActivityStatus(s, t, activityName) ==
    LET data == getData(s, t).data
    IN  IF t \notin DOMAIN data.dailyData THEN FALSE
        ELSE StatusOrFalse(data.dailyData[t], activityName)

\* the body of toggleTheme up to saveData: the ledger in memory
ThemeToggledData(data) ==
    [data EXCEPT !.theme = IF data.theme = "light" THEN "dark" ELSE "light"]

\* toggleTheme()
toggleTheme(s, t, full) ==
    LET got == getData(s, t)
        saved == saveData(ThemeToggledData(got.data), got.store, full)
    IN  [store |-> saved.store,
         outcome |-> IF saved.written THEN "saved" ELSE "notSaved"]

----------------------------------------------------------------------------
(* Progress and statistics *)

\* Math.round(num / den) for num >= 0, den > 0: halves round up
Round(num, den) == (2 * num + den) \div (2 * den)

\* data.dailyData[date] || {}
DayData(data, date) ==
    IF date \in DOMAIN data.dailyData THEN data.dailyData[date] ELSE EmptyMap

\* the inner forEach: the number of activities with dayData[activity] === true
RECURSIVE DayCompleted(_, _, _)
DayCompleted(activities, dayData, i) ==
    IF i > Len(activities) THEN 0
    ELSE (IF activities[i] \in DOMAIN dayData /\ dayData[activities[i]] = TRUE
          THEN 1 ELSE 0)
         + DayCompleted(activities, dayData, i + 1)

\* hasData set for every date that has a record
HasData_AnyRecord(activities, dayData) == dayData # EmptyMap

\* the inner forEach: some activity has dayData[activity] !== undefined
HasData(activities, dayData) ==
    \E i \in 1..Len(activities) : activities[i] \in DOMAIN dayData

\* calculateProgress()
calculateProgress(s, t) ==
    LET data == getData(s, t).data
        activities == data.activities
    IN  IF Len(activities) = 0 THEN 0
        ELSE Round(DayCompleted(activities, DayData(data, t), 1) * 100,
                   Len(activities))

\* the outer forEach of calculateSuccessPercentage from index i on.
\* totalDayPercentage is kept as the exact fraction total / activities.length
\* (Math.round of the floating-point quotient is one of the nearest integers).
RECURSIVE SuccessLoop(_, _, _, _)
SuccessLoop(data, dateRange, i, acc) ==
    IF i > Len(dateRange) THEN acc
    ELSE LET dayData == DayData(data, dateRange[i])
             dayCompleted == DayCompleted(data.activities, dayData, 1)
         IN  IF HasData(data.activities, dayData)
             THEN SuccessLoop(data, dateRange, i + 1,
                     [daysWithData  |-> acc.daysWithData + 1,
                      total         |-> acc.total + dayCompleted * 100,
                      completedDays |-> acc.completedDays +
                          (IF dayCompleted = Len(data.activities) THEN 1 ELSE 0)])
             ELSE SuccessLoop(data, dateRange, i + 1, acc)

\* calculateSuccessPercentage(dateRange)
calculateSuccessPercentage(s, t, dateRange) ==
    LET data == getData(s, t).data
        activities == data.activities
    IN  IF Len(activities) = 0 \/ Len(dateRange) = 0
        THEN [completedDays |-> 0, overall |-> 0]
        ELSE LET acc == SuccessLoop(data, dateRange, 1,
                            [daysWithData |-> 0, total |-> 0, completedDays |-> 0])
             IN  [completedDays |-> acc.completedDays,
                  overall |-> IF acc.daysWithData > 0
                              THEN Round(acc.total, Len(activities) * acc.daysWithData)
                              ELSE 0]

----------------------------------------------------------------------------
(* The page: its load, its timers and the user's operations *)

NoStats == [completedDays |-> 0, overall |-> 0]

\* the progress bar of a page that is not observed
NoProgress == [inThrottle |-> FALSE, shown |-> 0]

Op(op, input, outcome) == [op |-> op, input |-> input, outcome |-> outcome]

\* the last step was none of the user's operations
NoOp == Op("none", <<>>, "none")

\* a ledger one activity short of full, as the page leaves it when it was
\* first loaded on day t and the activities were added on that day
NearlyFullData(t) ==
    [DefaultData(t) EXCEPT !.activities = FullMinusOne,
                           !.appOpens = <<t>>,
                           !.currentStreak = 1,
                           !.bestStreak = 1]

\* a new installation on day 1, or a nearly full ledger on the last day
Init ==
    /\ \/ store = Missing /\ today = 1
       \/ store = Stored(NearlyFullData(MaxDay)) /\ today = MaxDay
    /\ appOpen = FALSE
    /\ inThrottle = FALSE
    /\ mediumFull = FALSE
    /\ lastOp = NoOp
    /\ stats = NoStats
    /\ progress = NoProgress
    /\ before = store
    /\ subject = <<>>

\* DOMContentLoaded: checkDailyReset, trackAppOpen, the renders, and
\* setInterval(checkNewDay, 60000) with a fresh throttle closure
AppLoad ==
    /\ ~appOpen
    /\ store' = trackAppOpen(checkDailyReset(store, today, mediumFull), today, mediumFull)
    /\ appOpen' = TRUE
    /\ inThrottle' = FALSE
    /\ lastOp' = NoOp
    /\ UNCHANGED <<today, mediumFull, stats, before, subject, progress>>

\* the page is closed: its timers and closures are gone
AppClose ==
    /\ appOpen
    /\ appOpen' = FALSE
    /\ inThrottle' = FALSE
    /\ lastOp' = NoOp
    /\ UNCHANGED <<store, today, mediumFull, stats, before, subject, progress>>

\* midnight passes
DayRollover ==
    /\ today < MaxDay
    /\ today' = today + 1
    /\ lastOp' = NoOp
    /\ UNCHANGED <<store, appOpen, inThrottle, mediumFull, stats, before, subject, progress>>

\* a checkNewDay that resets the day and does not track the open
checkNewDayBody_ResetOnly(s, t, full) ==
    LET got == getData(s, t)
    IN  IF got.data.lastResetDate # t
        THEN checkDailyReset(got.store, t, full)
        ELSE got.store

\* the function given to throttle at checkNewDay: what it leaves in
\* localStorage
checkNewDayBody(s, t, full) ==
    LET got == getData(s, t)
    IN  IF got.data.lastResetDate # t
        THEN trackAppOpen(checkDailyReset(got.store, t, full), t, full)
        ELSE got.store

\* the interval timer calls the throttled checkNewDay
IntervalTick ==
    /\ appOpen
    /\ IF ~inThrottle
       THEN /\ store' = checkNewDayBody(store, today, mediumFull)
            /\ inThrottle' = TRUE
            /\ lastOp' = NoOp
       ELSE /\ UNCHANGED <<store, inThrottle>>
            /\ lastOp' = NoOp
    /\ UNCHANGED <<today, appOpen, mediumFull, stats, before, subject, progress>>

\* the timeout set by throttle: inThrottle = false
ThrottleRelease ==
    /\ appOpen
    /\ inThrottle
    /\ inThrottle' = FALSE
    /\ lastOp' = NoOp
    /\ UNCHANGED <<store, today, appOpen, mediumFull, stats, before, subject, progress>>

AddActivity(name) ==
    /\ appOpen
    /\ LET r == addActivity(store, today, mediumFull, name)
       IN  /\ store' = r.store
           /\ lastOp' = Op("addActivity", name, r.outcome)
    /\ UNCHANGED <<today, appOpen, inThrottle, mediumFull, stats, before, subject, progress>>

DeleteActivity(name, confirmed) ==
    /\ appOpen
    /\ LET r == deleteActivity(store, today, mediumFull, name, confirmed)
       IN  /\ store' = r.store
           /\ lastOp' = Op("deleteActivity", name, r.outcome)
    /\ UNCHANGED <<today, appOpen, inThrottle, mediumFull, stats, before, subject, progress>>

\* dailyData would not grow past MaxRecords dates
RecordsBounded(s, t) ==
    \/ t \in DOMAIN s.value.dailyData
    \/ Cardinality(DOMAIN s.value.dailyData) < MaxRecords

ToggleActivity(name) ==
    /\ appOpen
    /\ RecordsBounded(store, today)
    /\ LET r == toggleActivity(store, today, mediumFull, name)
       IN  /\ store' = r.store
           /\ lastOp' = Op("toggleActivity", name, r.outcome)
    /\ UNCHANGED <<today, appOpen, inThrottle, mediumFull, stats, before, subject, progress>>

ToggleTheme ==
    /\ appOpen
    /\ LET r == toggleTheme(store, today, mediumFull)
       IN  /\ store' = r.store
           /\ lastOp' = Op("toggleTheme", <<>>, r.outcome)
    /\ UNCHANGED <<today, appOpen, inThrottle, mediumFull, stats, before, subject, progress>>

Next ==
    \/ AppLoad
    \/ AppClose
    \/ DayRollover
    \/ IntervalTick
    \/ ThrottleRelease
    \/ \E name \in RawNames : AddActivity(name)
    \/ \E name \in DeleteNames, confirmed \in BOOLEAN : DeleteActivity(name, confirmed)
    \/ \E name \in ToggleNames : ToggleActivity(name)
    \/ ToggleTheme

Spec == Init /\ [][Next]_vars

----------------------------------------------------------------------------
(* The same page on a medium that can run out of space *)

\* the origin's quota is used up (by this item and the daily_reminder_* items)
MediumFills ==
    /\ store.shape = "ok"
    /\ ~mediumFull
    /\ mediumFull' = TRUE
    /\ lastOp' = NoOp
    /\ UNCHANGED <<store, today, appOpen, inThrottle, stats, before, subject, progress>>

\* space is freed
MediumFrees ==
    /\ mediumFull
    /\ mediumFull' = FALSE
    /\ lastOp' = NoOp
    /\ UNCHANGED <<store, today, appOpen, inThrottle, stats, before, subject, progress>>

NextQuota ==
    \/ Next
    \/ MediumFills
    \/ MediumFrees

SpecQuota == Init /\ [][NextQuota]_vars

----------------------------------------------------------------------------
(* Properties of the ledger under Spec *)

Ledger == store.value

NoDuplicates(seq) == \A i, j \in 1..Len(seq) : seq[i] = seq[j] => i = j

\* the keys of the record of a date
KeysOf(data, date) == DOMAIN data.dailyData[date]

\* C1: in every reachable state the stored activities list has no duplicate
\* name and at most 50 entries.
C1_ActivitiesUniqueAndBounded ==
    store.shape = "ok" =>
        /\ NoDuplicates(Ledger.activities)
        /\ Len(Ledger.activities) <= MaxActivities

\* C1 witness: the list is full and a further, new name has just been refused.
C1_Witness ==
    /\ store.shape = "ok"
    /\ Len(Ledger.activities) = MaxActivities
    /\ lastOp.op = "addActivity"
    /\ lastOp.outcome = "limit"

\* what the streak computation yields from the stored appOpens on day t
Computed(t) == updateStreak(Ledger, t)

InSync ==
    /\ Ledger.currentStreak = Computed(today).currentStreak
    /\ Ledger.bestStreak = Computed(today).bestStreak

\* the latest stored app open is today's or yesterday's
OpenedRecently ==
    \E i \in 1..Len(Ledger.appOpens) : Ledger.appOpens[i] >= today - 1

\* C2 as claimed: in every reachable state the stored streaks are the ones
\* the streak computation yields from the stored appOpens and today.
C2_StreaksAlwaysInSync == store.shape = "ok" => InSync

\* C2 amended: the stored streaks are the computed ones in every reachable
\* state in which appOpens is empty or holds today or yesterday.
C2_StreaksInSyncWhenOpenedRecently ==
    (store.shape = "ok" /\ (Ledger.appOpens = <<>> \/ OpenedRecently)) => InSync

\* C2 witness: midnight has passed with the page open and no check has run
\* yet; the stored streak of two days still is the computed one.
C2_Witness ==
    /\ store.shape = "ok"
    /\ appOpen
    /\ ~Includes(Ledger.appOpens, today)
    /\ Includes(Ledger.appOpens, today - 1)
    /\ Ledger.currentStreak = 2
    /\ InSync

\* C3: an addActivity that ends in an alert (invalid name, duplicate, 50
\* activities) leaves localStorage exactly as it was.
C3_FailedAddChangesNothing ==
    [][(/\ lastOp'.op = "addActivity"
        /\ lastOp'.outcome \in {"invalid", "duplicate", "limit"})
       => store' = store]_vars

\* C3 witness: an add has been refused for each of the three reasons; the
\* one shown is the refusal of a 101-character name on a ledger with data.
C3_Witness ==
    /\ lastOp.op = "addActivity"
    /\ lastOp.input = NameTooLong
    /\ lastOp.outcome = "invalid"
    /\ Ledger.activities # <<>>
    /\ Ledger.dailyData # EmptyMap

C3_WitnessDuplicate ==
    /\ lastOp.op = "addActivity"
    /\ lastOp.input = NamePadded
    /\ lastOp.outcome = "duplicate"

C3_WitnessLimit ==
    /\ lastOp.op = "addActivity"
    /\ lastOp.outcome = "limit"
    /\ Ledger.theme = "dark"

\* C4 as claimed: toggleActivity of a name that is not an activity is
\* refused and changes nothing, so every key of every DailyRecord is the name
\* of a current activity.
C4_KeysAreActivities ==
    store.shape = "ok" =>
        /\ \A date \in DOMAIN Ledger.dailyData :
              \A k \in KeysOf(Ledger, date) : Includes(Ledger.activities, k)
        /\ (lastOp.op = "toggleActivity" /\ ~Includes(Ledger.activities, lastOp.input))
              => lastOp.outcome = "unknownActivity"

----------------------------------------------------------------------------
(* updateStreak as a function of appOpens and the day: SpecStreak *)

\* days are 1..MaxStreakDay
MaxStreakDay == 6

\* the elements of a set of days in ascending order
RECURSIVE Ascending(_)
Ascending(S) ==
    IF S = {} THEN <<>>
    ELSE LET m == CHOOSE x \in S : \A y \in S : x <= y
         IN  <<m>> \o Ascending(S \ {m})

\* a ledger whose appOpens are any days up to today, as trackAppOpen leaves
\* it after the push of today or as it stands on a later day
InitStreak ==
    /\ today \in 1..MaxStreakDay
    /\ \E S \in SUBSET (1..today) :
          store = Stored([DefaultData(1) EXCEPT !.appOpens = Ascending(S)])
    /\ appOpen = TRUE
    /\ inThrottle = FALSE
    /\ mediumFull = FALSE
    /\ lastOp = NoOp
    /\ stats = NoStats
    /\ progress = NoProgress
    /\ before = store
    /\ subject = <<>>

\* updateStreak(data) is applied to the ledger
ApplyUpdateStreak ==
    /\ lastOp = NoOp
    /\ store' = Stored(updateStreak(store.value, today))
    /\ lastOp' = Op("updateStreak", <<>>, "done")
    /\ UNCHANGED <<today, appOpen, inThrottle, mediumFull, stats, before, subject, progress>>

NextStreak == ApplyUpdateStreak

SpecStreak == InitStreak /\ [][NextStreak]_vars

----------------------------------------------------------------------------
(* Ledgers drawn for the specifications that apply one or two operations *)

\* dates of the drawn records are 1..MaxDrawnDay
MaxDrawnDay == 2

NameB == <<"b">>

DrawnActivities ==
    {<<>>, <<NameA>>, <<NameB>>, <<NameA, NameB>>, <<NameB, NameA>>,
     <<NameA, NameB, NameLong>>, FullMinusOne, Append(FullMinusOne, NameB)}

\* every record over the keys "a" and "b"
DrawnRecords ==
    UNION {[K -> BOOLEAN] : K \in SUBSET {NameA, NameB}}

\* every dailyData over the dates 1..MaxDrawnDay
DrawnDailyData ==
    UNION {[D -> DrawnRecords] : D \in SUBSET (1..MaxDrawnDay)}

\* a ledger as the page leaves it on day MaxDrawnDay, first loaded that day
DrawnLedgers ==
    {[DefaultData(MaxDrawnDay) EXCEPT !.activities = a,
                                      !.dailyData = dd,
                                      !.appOpens = <<MaxDrawnDay>>,
                                      !.currentStreak = 1,
                                      !.bestStreak = 1] :
        a \in DrawnActivities, dd \in DrawnDailyData}

InitDrawn ==
    /\ store \in {Stored(l) : l \in DrawnLedgers}
    /\ today = MaxDrawnDay
    /\ appOpen = TRUE
    /\ inThrottle = FALSE
    /\ mediumFull = FALSE
    /\ lastOp = NoOp
    /\ stats = NoStats
    /\ progress = NoProgress
    /\ before = store

----------------------------------------------------------------------------
(* calculateSuccessPercentage as a function of the ledger and the range:   *)
(* SpecStats                                                               *)

\* the ranges lo..hi of dates, as getWeekDates and getMonthDates build them,
\* and the empty range
DatesFromTo(lo, hi) == [i \in 1..(hi - lo + 1) |-> lo + i - 1]

DrawnRanges ==
    {DatesFromTo(lo, hi) : lo \in 1..(MaxDrawnDay + 1), hi \in 0..(MaxDrawnDay + 1)}

InitStats == InitDrawn /\ subject = <<>>

ApplyCalculateSuccessPercentage(dateRange) ==
    /\ lastOp = NoOp
    /\ stats' = calculateSuccessPercentage(store, today, dateRange)
    /\ lastOp' = Op("calculateSuccessPercentage", dateRange, "done")
    /\ UNCHANGED <<store, today, appOpen, inThrottle, mediumFull, before, subject, progress>>

NextStats == \E dateRange \in DrawnRanges : ApplyCalculateSuccessPercentage(dateRange)

SpecStats == InitStats /\ [][NextStats]_vars

----------------------------------------------------------------------------
(* addActivity(name) and then deleteActivity(name): SpecRoundTrip *)

InitRoundTrip == InitDrawn /\ subject = <<>>

\* addActivity(name) on the drawn ledger
RoundTripAdd(name) ==
    /\ lastOp = NoOp
    /\ AddActivity(name)

\* deleteActivity of the name just given to addActivity
RoundTripDelete(confirmed) ==
    /\ lastOp.op = "addActivity"
    /\ DeleteActivity(lastOp.input, confirmed)

NextRoundTrip ==
    \/ \E name \in RawNames : RoundTripAdd(name)
    \/ \E confirmed \in BOOLEAN : RoundTripDelete(confirmed)

SpecRoundTrip == InitRoundTrip /\ [][NextRoundTrip]_vars

----------------------------------------------------------------------------
(* deleteActivity(name), then toggles and adds: SpecReAdd *)

\* subject is an activity of the drawn ledger (it has a Delete button)
InitReAdd ==
    /\ InitDrawn
    /\ subject \in {NameA, NameB}
    /\ Includes(store.value.activities, subject)

\* the confirmed deleteActivity(subject) on the drawn ledger
DeleteSubject ==
    /\ lastOp = NoOp
    /\ DeleteActivity(subject, TRUE)

\* a later toggleActivity(subject)
ToggleSubject ==
    /\ lastOp # NoOp
    /\ ToggleActivity(subject)

\* a later addActivity
AddAfterDelete(name) ==
    /\ lastOp # NoOp
    /\ AddActivity(name)

NextReAdd ==
    \/ DeleteSubject
    \/ ToggleSubject
    \/ \E name \in {NameA, NameB} : AddAfterDelete(name)

SpecReAdd == InitReAdd /\ [][NextReAdd]_vars

----------------------------------------------------------------------------
(* Properties of deleteActivity and of the round trip *)

\* no record of any date has the key name
NoKey(data, name) ==
    \A date \in DOMAIN data.dailyData : name \notin KeysOf(data, date)

\* C5, first half (holds under Spec and SpecReAdd): right after a confirmed
\* deleteActivity(name), name is no activity and no DailyRecord has the key.
C5_DeletePurges ==
    (lastOp.op = "deleteActivity" /\ lastOp.outcome = "saved") =>
        /\ ~Includes(Ledger.activities, lastOp.input)
        /\ NoKey(Ledger, lastOp.input)

\* C5 as claimed, under SpecReAdd, where every behaviour begins with the
\* confirmed deleteActivity(subject): right after it subject is no activity
\* and no DailyRecord has the key subject, and when subject is added again
\* later every date reports it as untracked.
C5_DeletedNameComesBackUntracked ==
    /\ C5_DeletePurges
    /\ (/\ lastOp.op = "addActivity"
        /\ lastOp.input = subject
        /\ lastOp.outcome = "saved")
       => NoKey(Ledger, subject)

\* dailyData with every record cut down to the keys in K
Restricted(dailyData, K) ==
    [date \in DOMAIN dailyData |->
        [k \in (DOMAIN dailyData[date]) \cap K |-> dailyData[date][k]]]

\* the activities of the drawn ledger other than name
Others(name) == Range(before.value.activities) \ {name}

\* the ledger is the drawn one again, as far as the round trip is concerned
RoundTripRestores(name) ==
    /\ Ledger.activities = before.value.activities
    /\ Restricted(Ledger.dailyData, Others(name))
          = Restricted(before.value.dailyData, Others(name))

\* C9 as claimed, under SpecRoundTrip: for every drawn ledger and every
\* name, addActivity(name) followed by the (confirmed) deleteActivity(name)
\* restores the activities and the records of the other activities.
C9_RoundTripAlways ==
    (lastOp.op = "deleteActivity" /\ lastOp.outcome = "saved")
        => RoundTripRestores(lastOp.input)

\* C9 amended: the same for every name that is not already an activity and
\* has no leading or trailing white space.
C9_RoundTripOfNewTrimmedName ==
    (/\ lastOp.op = "deleteActivity"
     /\ lastOp.outcome = "saved"
     /\ ~Includes(before.value.activities, lastOp.input)
     /\ trim(lastOp.input) = lastOp.input)
        => RoundTripRestores(lastOp.input)

\* C9 witness: "a" was added to a ledger that had the activity "b", records
\* of "b" on both dates and a stale key "a", and then deleted again.
C9_Witness ==
    /\ lastOp.op = "deleteActivity"
    /\ lastOp.outcome = "saved"
    /\ lastOp.input = NameA
    /\ before.value.activities = <<NameB>>
    /\ DOMAIN before.value.dailyData = 1..MaxDrawnDay
    /\ \A date \in 1..MaxDrawnDay :
          DOMAIN before.value.dailyData[date] = {NameA, NameB}
    /\ RoundTripRestores(NameA)

----------------------------------------------------------------------------
(* Properties of saveData under SpecQuota *)

\* the ledger the operation holds in memory when it calls saveData
InMemory(op, data, t) ==
    CASE op.op = "addActivity" -> PushedData(data, validateActivityName(op.input).name)
      [] op.op = "deleteActivity" -> DeletedData(data, op.input)
      [] op.op = "toggleActivity" -> ToggledData(data, t, op.input)
      [] op.op = "toggleTheme" -> ThemeToggledData(data)

\* C10 as claimed: when the save at the end of an operation is rejected, the
\* operation's mutation still stands in the ledger the next getData returns.
C10_RejectedSaveKeepsMutation ==
    [][lastOp'.outcome = "notSaved"
       => getData(store', today').data = InMemory(lastOp', getData(store, today).data, today)]_vars

----------------------------------------------------------------------------
(* Properties of updateStreak under SpecStreak *)

Opens == Range(Ledger.appOpens)

\* the length of the maximal run of consecutive days in S that ends at d
RunEndingAt(S, d) ==
    CHOOSE k \in 0..Cardinality(S) :
        /\ \A j \in 0..(k - 1) : d - j \in S
        /\ d - k \notin S

\* the length of the longest run of consecutive days in S
LongestRun(S) ==
    CHOOSE m \in 0..Cardinality(S) :
        /\ \A d \in S : RunEndingAt(S, d) <= m
        /\ (S # {} => \E d \in S : RunEndingAt(S, d) = m)

\* C6: the computed currentStreak is the length of the maximal run of
\* consecutive days in appOpens that ends today if today is in appOpens,
\* else that ends yesterday if yesterday is in appOpens, else 0.
C6_CurrentStreakIsRun ==
    lastOp.op = "updateStreak" =>
        Ledger.currentStreak =
            IF today \in Opens THEN RunEndingAt(Opens, today)
            ELSE IF today - 1 \in Opens THEN RunEndingAt(Opens, today - 1)
            ELSE 0

\* C6 witness: today is missing, the run of three days that ends yesterday
\* counts, and an older day beyond a gap does not.
C6_Witness ==
    /\ lastOp.op = "updateStreak"
    /\ today \notin Opens
    /\ Ledger.currentStreak = 3
    /\ Cardinality(Opens) = 4

\* C7: for non-empty appOpens the computed bestStreak is the maximum of the
\* longest run of consecutive days in appOpens and the computed
\* currentStreak; for empty appOpens both streaks are 0.
C7_BestStreakIsLongestRun ==
    lastOp.op = "updateStreak" =>
        IF Opens = {}
        THEN Ledger.currentStreak = 0 /\ Ledger.bestStreak = 0
        ELSE Ledger.bestStreak = Max(LongestRun(Opens), Ledger.currentStreak)

\* C7 witness: the longest run is an old one, longer than the current one,
\* with a gap between them.
C7_Witness ==
    /\ lastOp.op = "updateStreak"
    /\ Ledger.currentStreak = 2
    /\ Ledger.bestStreak = 3

----------------------------------------------------------------------------
(* Properties of calculateSuccessPercentage under SpecStats *)

Activities == Range(Ledger.activities)

\* the indexes of the dates of the range on which some current activity has
\* a key, true or false
Contributing(dateRange) ==
    {i \in 1..Len(dateRange) :
        \E a \in Activities : a \in DOMAIN DayData(Ledger, dateRange[i])}

\* the current activities that are true on a date
CompletedOn(date) ==
    {a \in Activities :
        a \in DOMAIN DayData(Ledger, date) /\ DayData(Ledger, date)[a] = TRUE}

Abs(x) == IF x >= 0 THEN x ELSE -x

\* n is an integer nearest to num / den
Nearest(n, num, den) == 2 * Abs(n * den - num) <= den

\* C8: a date contributes iff some current activity has a key in its record;
\* completedDays counts the contributing dates on which every current
\* activity is true; overall is the mean over the contributing dates of
\* completed / activities.length * 100, rounded to the nearest integer; the
\* result is {completedDays: 0, overall: 0} when the range is empty, there is
\* no activity or no date contributes.
C8_SuccessPercentage ==
    lastOp.op = "calculateSuccessPercentage" =>
        LET dateRange == lastOp.input
            C == Contributing(dateRange)
            n == Cardinality(Activities)
        IN  IF dateRange = <<>> \/ n = 0 \/ C = {}
            THEN stats = [completedDays |-> 0, overall |-> 0]
            ELSE /\ stats.completedDays =
                       Cardinality({i \in C : CompletedOn(dateRange[i]) = Activities})
                 /\ Nearest(stats.overall,
                            Sum([i \in C |-> 100 * Cardinality(CompletedOn(dateRange[i]))]),
                            n * Cardinality(C))

\* C8 witness: of three dates one has no record and does not count, one has
\* one of the three activities true and one has none true (but a key); the
\* mean 16.67 is rounded to 17.
C8_Witness ==
    /\ lastOp.op = "calculateSuccessPercentage"
    /\ Len(lastOp.input) = MaxDrawnDay + 1
    /\ Len(Ledger.activities) = 3
    /\ Cardinality(Contributing(lastOp.input)) = 2
    /\ stats.overall = 17
    /\ stats.completedDays = 0

----------------------------------------------------------------------------
(* getData as a function of what localStorage holds: SpecLoad *)

\* the kinds the three members can have in a parsed object
DrawnKinds ==
    [activities : {"array", "other"},
     dailyData  : {"object", "null", "other"},
     appOpens   : {"array", "other"}]

\* what localStorage can hold when the page reads it: nothing, a string that
\* is no JSON, the JSON of something that is no object, and the JSON of an
\* object whose three members are of any kind
DrawnBlobs ==
    {Blob(sh, DefaultData(0), WellShaped) : sh \in {"missing", "unparsable", "notObject"}}
    \cup {Blob("ok", l, k) : l \in {d \in DrawnLedgers : Len(d.activities) <= 2},
                             k \in DrawnKinds}

InitLoad ==
    /\ store \in DrawnBlobs
    /\ today \in MaxDrawnDay..(MaxDrawnDay + 1)
    /\ appOpen = FALSE
    /\ inThrottle = FALSE
    /\ mediumFull = FALSE
    /\ lastOp = NoOp
    /\ stats = NoStats
    /\ progress = NoProgress
    /\ before = store
    /\ subject = <<>>

\* one call of getData
ApplyGetData ==
    /\ lastOp = NoOp
    /\ LET got == getData(store, today)
       IN  /\ store' = got.store
           /\ lastOp' = Op("getData", <<>>,
                           IF got.store = store THEN "parsed" ELSE "initialized")
    /\ UNCHANGED <<today, appOpen, inThrottle, mediumFull, stats, before, subject, progress>>

NextLoad == ApplyGetData

SpecLoad == InitLoad /\ [][NextLoad]_vars

\* the blob is missing, unparsable, no object, or an object with one of the
\* three members of the wrong kind
Malformed(s) == s.shape # "ok" \/ s.kinds # WellShaped

\* C11 as claimed, under SpecLoad: whenever the blob is missing, unparsable
\* or partially shaped, getData returns the full default ledger of today and
\* leaves it in localStorage.
C11_MalformedBlobGivesDefaults ==
    (lastOp.op = "getData" /\ Malformed(before)) =>
        /\ getData(before, today).data = DefaultData(today)
        /\ ~getData(before, today).nullDailyData
        /\ store = Stored(DefaultData(today))

\* the part of C11 that holds: a missing, unparsable or non-object blob is
\* replaced by the default ledger of today, which is returned
C11_UnreadableBlobGivesDefaults ==
    (lastOp.op = "getData" /\ before.shape # "ok") =>
        /\ getData(before, today).data = DefaultData(today)
        /\ store = Stored(DefaultData(today))

----------------------------------------------------------------------------
(* The page staying open over midnights, with its timers: SpecRollover *)

\* the page has just been loaded on day 1 of a new installation
InitRollover ==
    /\ store = trackAppOpen(checkDailyReset(Missing, 1, FALSE), 1, FALSE)
    /\ today = 1
    /\ appOpen = TRUE
    /\ inThrottle = FALSE
    /\ mediumFull = FALSE
    /\ lastOp = NoOp
    /\ stats = NoStats
    /\ progress = NoProgress
    /\ before = store
    /\ subject = <<>>

\* the page is never closed; the user works on it between the timers
NextRollover ==
    \/ DayRollover
    \/ IntervalTick
    \/ ThrottleRelease
    \/ \E name \in {NameA, NameTooLong} : AddActivity(name)
    \/ \E name \in DeleteNames, confirmed \in BOOLEAN : DeleteActivity(name, confirmed)
    \/ \E name \in ToggleNames : ToggleActivity(name)
    \/ ToggleTheme

\* the interval timer fires while the throttle is open: under NextRollover
\* the steps that take inThrottle from FALSE to TRUE are the steps of
\* IntervalTick that call the function
TickDue == appOpen /\ ~inThrottle /\ inThrottle' = TRUE

\* setInterval keeps calling checkNewDay and the timeout of throttle fires
SpecRollover ==
    /\ InitRollover
    /\ [][NextRollover]_vars
    /\ WF_inThrottle(TickDue)
    /\ WF_vars(ThrottleRelease)

\* the day d has been taken up: reset date, app open and streaks
Settled(d) ==
    /\ Ledger.lastResetDate = d
    /\ Includes(Ledger.appOpens, d)
    /\ Ledger.currentStreak = updateStreak(Ledger, d).currentStreak
    /\ Ledger.bestStreak = updateStreak(Ledger, d).bestStreak

\* C12: with the page open on day d, eventually (unless the date rolls over
\* again first) lastResetDate is d, d is in appOpens and the streaks are the
\* ones computed for d; a tick dropped by the throttle does not prevent it.
C12_RolloverEventuallySettled ==
    \A d \in Days : (today = d) ~> (today # d \/ Settled(d))

\* C12 witness: the page, open since day 1, has taken up day 2 in a tick and
\* the throttle has not been released yet.
C12_Witness ==
    /\ today = 2
    /\ inThrottle
    /\ Settled(2)
    /\ Ledger.appOpens = <<1, 2>>
    /\ Ledger.currentStreak = 2

----------------------------------------------------------------------------
(* toggleActivity on drawn ledgers: SpecToggle *)

InitToggle ==
    /\ InitDrawn
    /\ subject \in {NameA, NameB}

\* toggleActivity(subject); before keeps what localStorage held at the call
ApplyToggle ==
    /\ LET r == toggleActivity(store, today, mediumFull, subject)
       IN  /\ store' = r.store
           /\ lastOp' = Op("toggleActivity", subject, r.outcome)
    /\ before' = store
    /\ UNCHANGED <<today, appOpen, inThrottle, mediumFull, stats, subject, progress>>

NextToggle == ApplyToggle

SpecToggle == InitToggle /\ [][NextToggle]_vars

\* the date has a record with the key name
HasKey(data, date, name) ==
    date \in DOMAIN data.dailyData /\ name \in KeysOf(data, date)

\* C13: after toggleActivity(name) today's record has the key name; its flag
\* is true when the date had no record or the record had no key for name,
\* and the negation of the flag it had otherwise.
C13_ToggleSetsOrNegates ==
    lastOp.op = "toggleActivity" =>
        LET name == lastOp.input
            old == before.value
        IN  /\ HasKey(Ledger, today, name)
            /\ Ledger.dailyData[today][name] =
                  IF HasKey(old, today, name)
                  THEN ~old.dailyData[today][name]
                  ELSE TRUE

\* C13 witness: a flag that was true has been set to false, the key is kept
\* and the record has another key.
C13_Witness ==
    /\ lastOp.op = "toggleActivity"
    /\ lastOp.input = NameA
    /\ HasKey(before.value, today, NameA)
    /\ before.value.dailyData[today][NameA] = TRUE
    /\ HasKey(Ledger, today, NameA)
    /\ Ledger.dailyData[today][NameA] = FALSE
    /\ HasKey(Ledger, today, NameB)

\* a toggle on a date without a record has made the record
C13_WitnessNoRecord ==
    /\ lastOp.op = "toggleActivity"
    /\ today \notin DOMAIN before.value.dailyData
    /\ Ledger.dailyData[today] = Put(EmptyMap, lastOp.input, TRUE)

----------------------------------------------------------------------------
(* deleteActivity of a name that is no activity, under Spec *)

\* C14 as claimed: a deleteActivity(name) for a name that is not in
\* activities leaves the ledger in localStorage as it was, after any
\* sequence of operations.
C14_DeleteOfAbsentNameIsNoOp ==
    [][(/\ lastOp'.op = "deleteActivity"
        /\ store.shape = "ok"
        /\ ~Includes(Ledger.activities, lastOp'.input))
       => store' = store]_vars

\* the part of C14 that holds: the same, when no record has the key name
C14_DeleteOfUnknownKeyIsNoOp ==
    [][(/\ lastOp'.op = "deleteActivity"
        /\ store.shape = "ok"
        /\ ~Includes(Ledger.activities, lastOp'.input)
        /\ NoKey(Ledger, lastOp'.input))
       => store' = store]_vars

----------------------------------------------------------------------------
(* The progress bar behind its throttle: SpecProgress *)

\* updateProgress(): the throttled function runs if the closure's flag is
\* clear, computes the percentage from the ledger in localStorage and hands
\* it to the display (requestAnimationFrame callbacks run in the order of
\* their requests); a call made while the flag is set does nothing.
updateProgress(p, s, t) ==
    IF ~p.inThrottle
    THEN [inThrottle |-> TRUE, shown |-> calculateProgress(s, t)]
    ELSE p

\* the ledgers of the bursts: one or two activities, a record of today or none
ProgressLedgers ==
    {l \in DrawnLedgers :
        /\ Len(l.activities) \in 1..2
        /\ DOMAIN l.dailyData \subseteq {MaxDrawnDay}}

\* the page has just been loaded: DOMContentLoaded has called updateProgress
InitProgress ==
    /\ store \in {Stored(l) : l \in ProgressLedgers}
    /\ today = MaxDrawnDay
    /\ appOpen = TRUE
    /\ inThrottle = FALSE
    /\ mediumFull = FALSE
    /\ lastOp = NoOp
    /\ stats = NoStats
    /\ before = store
    /\ subject = <<>>
    /\ progress = updateProgress(NoProgress, store, today)

\* addActivity(name) with its updateProgress (not reached by a refused add)
ShowAdd(name) ==
    /\ LET r == addActivity(store, today, mediumFull, name)
       IN  /\ store' = r.store
           /\ lastOp' = Op("addActivity", name, r.outcome)
           /\ progress' = IF r.outcome \in {"saved", "notSaved"}
                          THEN updateProgress(progress, r.store, today)
                          ELSE progress
    /\ UNCHANGED <<today, appOpen, inThrottle, mediumFull, stats, before, subject>>

\* the confirmed deleteActivity(name) with its updateProgress
ShowDelete(name) ==
    /\ LET r == deleteActivity(store, today, mediumFull, name, TRUE)
       IN  /\ store' = r.store
           /\ lastOp' = Op("deleteActivity", name, r.outcome)
           /\ progress' = updateProgress(progress, r.store, today)
    /\ UNCHANGED <<today, appOpen, inThrottle, mediumFull, stats, before, subject>>

\* toggleActivity(name) with its updateProgress
ShowToggle(name) ==
    /\ LET r == toggleActivity(store, today, mediumFull, name)
       IN  /\ store' = r.store
           /\ lastOp' = Op("toggleActivity", name, r.outcome)
           /\ progress' = updateProgress(progress, r.store, today)
    /\ UNCHANGED <<today, appOpen, inThrottle, mediumFull, stats, before, subject>>

\* the timeout set by throttle, 100 ms after the call that ran
ProgressRelease ==
    /\ progress.inThrottle
    /\ progress' = [progress EXCEPT !.inThrottle = FALSE]
    /\ UNCHANGED <<store, today, appOpen, inThrottle, mediumFull, lastOp, stats,
                   before, subject>>

NextProgress ==
    \/ \E name \in {NameA, NameB} : ShowAdd(name)
    \/ \E name \in {NameA, NameB} : ShowDelete(name)
    \/ \E name \in {NameA, NameB} : ShowToggle(name)
    \/ ProgressRelease

\* every timeout that is set fires
SpecProgress == InitProgress /\ [][NextProgress]_vars /\ WF_vars(ProgressRelease)

\* C15 as claimed: after a burst of mutations, once the timeout of the
\* throttle has fired, the percentage shown is calculateProgress of the
\* ledger.
C15_ProgressShownIsCurrent ==
    (lastOp.op \in {"toggleActivity", "addActivity", "deleteActivity"}
        /\ ~progress.inThrottle)
    => progress.shown = calculateProgress(store, today)

\* the part of C15 that holds: a call that finds the throttle clear shows
\* the percentage of the ledger it leaves
C15_UnthrottledCallShowsCurrent ==
    [][(progress.inThrottle = FALSE /\ progress'.inThrottle = TRUE)
       => progress'.shown = calculateProgress(store', today')]_vars

----------------------------------------------------------------------------
(* App opens over more days, with days left out: SpecOpens *)

\* days are 1..MaxOpenDay
MaxOpenDay == 5

\* midnight passes
DayPasses ==
    /\ today < MaxOpenDay
    /\ today' = today + 1
    /\ lastOp' = NoOp
    /\ UNCHANGED <<store, appOpen, inThrottle, mediumFull, stats, before, subject, progress>>

\* a new installation on day 1: loads, closes, midnights, the timers of the
\* open page and the operations on one activity
NextOpens ==
    \/ AppLoad
    \/ AppClose
    \/ DayPasses
    \/ IntervalTick
    \/ ThrottleRelease
    \/ AddActivity(NameA)
    \/ DeleteActivity(NameA, TRUE)
    \/ ToggleTheme

InitOpens == Init /\ store = Missing

SpecOpens == InitOpens /\ [][NextOpens]_vars

\* C16: from one state to the next the stored bestStreak never decreases.
C16_BestStreakNeverDecreases ==
    [][(store.shape = "ok" /\ store'.shape = "ok")
       => store'.value.bestStreak >= store.value.bestStreak]_vars

\* C16 witness: a streak of two days was broken and a new one has begun;
\* the best streak still is two.
C16_Witness ==
    /\ store.shape = "ok"
    /\ Ledger.appOpens = <<1, 2, 4>>
    /\ today = 4
    /\ Ledger.currentStreak = 1
    /\ Ledger.bestStreak = 2

====
